---------------------------- MODULE Spec2Model ----------------------------
(***************************************************************************)
(* A model of ztxexp: the configuration pipeline (manager.py, ExpManager)  *)
(* and the execution engine (runner.py, ExpRunner) with the run-directory  *)
(* layout both share.                                                      *)
(*                                                                         *)
(* Three specifications are defined over the same variables:               *)
(*   SpecPipeline  one ExpManager driven by arbitrary public calls;        *)
(*   SpecEq        ExpManager._are_configs_equal applied to drawn inputs;  *)
(*   Spec          one ExpRunner.run() over the output of a pipeline,      *)
(*                 followed by a fresh pipeline with filter_completed.     *)
(***************************************************************************)
EXTENDS Integers, Sequences, FiniteSets, TLC

(***************************************************************************)
(* Bounds of the model.                                                    *)
(***************************************************************************)
MaxConfigs == 6
MaxOps == 4
MaxFuncs == 2
MaxShuffle == 3

(***************************************************************************)
(* Python values.  Every parameter value is a record [ty, el]:             *)
(*   ty = "scalar"  a number,            el = << Atom(n) >>                *)
(*   ty = "str"     a string,            el = a sequence of atoms          *)
(*   ty = "path"    a pathlib.Path,      el = a sequence of atoms          *)
(*   ty = "list"    a Python list,       el = its elements                 *)
(*   ty = "tuple"   a Python tuple,      el = its elements                 *)
(* An element is an atom [ty |-> "scalar", el |-> <<n>>] or a list/tuple   *)
(* of numbers [ty |-> "list"/"tuple", el |-> <<n, ...>>].  With this       *)
(* encoding Python's == on values is TLA+ equality: a list never equals a  *)
(* tuple, at either level.                                                 *)
(***************************************************************************)
Atom(n) == [ty |-> "scalar", el |-> <<n>>]
Scalar(n) == [ty |-> "scalar", el |-> <<Atom(n)>>]
Str(ns) == [ty |-> "str", el |-> [i \in DOMAIN ns |-> Atom(ns[i])]]
PathOf(ns) == [ty |-> "path", el |-> [i \in DOMAIN ns |-> Atom(ns[i])]]
ListOf(es) == [ty |-> "list", el |-> es]
TupleOf(es) == [ty |-> "tuple", el |-> es]
ElemTuple(ns) == [ty |-> "tuple", el |-> ns]

(***************************************************************************)
(* json.dump followed by json.load (utils.save_json, utils.load_json):     *)
(* a tuple is written as an array and read back as a list, at any depth;   *)
(* numbers, strings and lists come back unchanged.                         *)
(***************************************************************************)
JsonElem(e) == IF e.ty = "tuple" THEN [e EXCEPT !.ty = "list"] ELSE e

JsonValue(v) ==
    [ty |-> IF v.ty = "tuple" THEN "list" ELSE v.ty,
     el |-> [i \in DOMAIN v.el |-> JsonElem(v.el[i])]]

JsonDict(d) == [k \in DOMAIN d |-> JsonValue(d[k])]

(***************************************************************************)
(* argparse.Namespace: a function from attribute names to values.          *)
(***************************************************************************)
SetAttr(c, k, v) == [x \in (DOMAIN c) \cup {k} |-> IF x = k THEN v ELSE c[x]]

(***************************************************************************)
(* Sequence helpers.                                                       *)
(***************************************************************************)
RECURSIVE ConcatAll(_)
ConcatAll(ss) == IF ss = <<>> THEN <<>> ELSE Head(ss) \o ConcatAll(Tail(ss))

RECURSIVE SeqProd(_)
SeqProd(s) == IF s = <<>> THEN 1 ELSE Head(s) * SeqProd(Tail(s))

Range(s) == {s[i] : i \in DOMAIN s}

\* The sequences of the same length drawn from the elements of a sequence,
\* an element possibly taken twice.
Redrawn(s) == {[i \in DOMAIN s |-> s[p[i]]] : p \in [DOMAIN s -> DOMAIN s]}

\* The permutations of a sequence (random.shuffle picks one of them).
Perms(s) ==
    {[i \in DOMAIN s |-> s[p[i]]] :
        p \in {q \in [DOMAIN s -> DOMAIN s] : \A i, j \in DOMAIN s : q[i] = q[j] => i = j}}

(***************************************************************************)
(* itertools.product over the lists: the combinations in lexicographic    *)
(* order, the last list varying fastest; one empty combination for no      *)
(* lists.                                                                  *)
(***************************************************************************)
RECURSIVE Product(_)
Product(lists) ==
    IF lists = <<>> THEN << <<>> >>
    ELSE LET rest == Product(Tail(lists))
             first == Head(lists)
         IN ConcatAll([i \in DOMAIN first |->
                          [j \in DOMAIN rest |-> <<first[i]>> \o rest[j]]])

(***************************************************************************)
(* A parameter dict (param_grid, variant_space) is a sequence of items     *)
(* [key, values] in the dict's insertion order, its keys distinct.         *)
(***************************************************************************)
DictKeys(d) == [i \in DOMAIN d |-> d[i].key]

\* for key, value in zip(keys, combination): setattr(new_config, key, value)
RECURSIVE SetAll(_, _, _)
SetAll(c, keys, combination) ==
    IF keys = <<>> \/ combination = <<>> THEN c
    ELSE SetAll(SetAttr(c, Head(keys), Head(combination)), Tail(keys), Tail(combination))

\* add_grid_search with the combinations iterator shared by all configurations
\* instead of cloned for each: the first configuration drains it.
GridSearchDrained(base, param_grid) ==
    IF param_grid = <<>> THEN base
    ELSE LET keys == DictKeys(param_grid)
             value_combinations == Product([i \in DOMAIN param_grid |-> param_grid[i].values])
         IN ConcatAll([b \in DOMAIN base |->
                IF b = 1
                THEN [j \in DOMAIN value_combinations |->
                        SetAll(base[b], keys, value_combinations[j])]
                ELSE <<>>])

\* ExpManager.add_grid_search: the new _base_configs.
GridSearch(base, param_grid) ==
    IF param_grid = <<>> THEN base
    ELSE LET keys == DictKeys(param_grid)
             value_combinations == Product([i \in DOMAIN param_grid |-> param_grid[i].values])
         IN ConcatAll([b \in DOMAIN base |->
                [j \in DOMAIN value_combinations |->
                    SetAll(base[b], keys, value_combinations[j])]])

\* ExpManager.add_variants: the new _base_configs.
\* add_variants with the copies made from the list being built, not from the
\* set the call started with.
RECURSIVE VariantsOfGrowing(_, _)
VariantsOfGrowing(base, pairs) ==
    IF pairs = <<>> THEN base
    ELSE LET sofar == VariantsOfGrowing(base, SubSeq(pairs, 1, Len(pairs) - 1))
             pair == pairs[Len(pairs)]
         IN sofar \o [b \in DOMAIN sofar |-> SetAttr(sofar[b], pair[1], pair[2])]

VariantsFromGrowing(base, variant_space) ==
    VariantsOfGrowing(base,
        ConcatAll([i \in DOMAIN variant_space |->
            [j \in DOMAIN variant_space[i].values |->
                <<variant_space[i].key, variant_space[i].values[j]>>]]))

\* add_variants without the copy of the current set at the front.
VariantsWithoutOriginals(base, variant_space) ==
    IF variant_space = <<>> THEN base
    ELSE ConcatAll([i \in DOMAIN variant_space |->
            ConcatAll([j \in DOMAIN variant_space[i].values |->
                [b \in DOMAIN base |->
                    SetAttr(base[b], variant_space[i].key, variant_space[i].values[j])]])])

Variants(base, variant_space) ==
    IF variant_space = <<>> THEN base
    ELSE base \o ConcatAll([i \in DOMAIN variant_space |->
            ConcatAll([j \in DOMAIN variant_space[i].values |->
                [b \in DOMAIN base |->
                    SetAttr(base[b], variant_space[i].key, variant_space[i].values[j])]])])

(***************************************************************************)
(* User callables registered with add_modifier and add_filter, after the   *)
(* examples: a modifier that mutates the Namespace it is given and returns *)
(* it, a modifier that returns a new Namespace, and two predicates.        *)
(***************************************************************************)
ModifierNames == {"promote", "rescale"}
FilterNames == {"keep_plain", "keep_slow"}

\* Whether the modifier changes its argument in place (and returns it).
InPlace(m) == m = "promote"

ModifierFunc(m, c) ==
    IF m = "promote"
    THEN IF c["lr"] = Scalar(2) THEN SetAttr(c, "model", Scalar(2)) ELSE c
    ELSE IF c["lr"] = Scalar(1) THEN SetAttr(c, "lr", Scalar(2)) ELSE c

FilterFunc(f, c) ==
    IF f = "keep_plain" THEN c["model"] # Scalar(2) ELSE c["lr"] # Scalar(2)

(***************************************************************************)
(* ExpManager._generate_if_needed, lines 138-158.                          *)
(***************************************************************************)
\* for modifier in self._modifiers: temp_config = modifier(temp_config)
\* The result, with the calls made: the slot of each modifier called, in order.
RECURSIVE ModifyLoop(_, _, _)
ModifyLoop(temp_config, mods, k) ==
    IF mods = <<>> THEN [config |-> temp_config, calls |-> <<>>]
    ELSE LET r == ModifyLoop(ModifierFunc(Head(mods), temp_config), Tail(mods), k + 1)
         IN [config |-> r.config, calls |-> <<k>> \o r.calls]

\* The Namespace object of _base_configs after the loop: the modifiers that
\* work in place change it, up to the first one that returns a new object.
RECURSIVE MutatedOne(_, _)
MutatedOne(config, mods) ==
    IF mods = <<>> \/ ~InPlace(Head(mods)) THEN config
    ELSE MutatedOne(ModifierFunc(Head(mods), config), Tail(mods))

\* all(f(config) for f in self._filters)
RECURSIVE AllFilters(_, _)
AllFilters(config, fs) ==
    IF fs = <<>> THEN TRUE
    ELSE IF ~FilterFunc(Head(fs), config) THEN FALSE
    ELSE AllFilters(config, Tail(fs))

\* if self._modifiers: ... (lines 141-148); one record [config, calls] per configuration.
ApplyModifiers(current_configs, mods) ==
    IF mods # <<>>
    THEN [i \in DOMAIN current_configs |-> ModifyLoop(current_configs[i], mods, 1)]
    ELSE [i \in DOMAIN current_configs |-> [config |-> current_configs[i], calls |-> <<>>]]

RECURSIVE FilterLoop(_, _)
FilterLoop(current_configs, fs) ==
    IF current_configs = <<>> THEN <<>>
    ELSE (IF AllFilters(Head(current_configs), fs) THEN <<Head(current_configs)>> ELSE <<>>)
         \o FilterLoop(Tail(current_configs), fs)

\* if self._filters: ... (lines 151-156)
ApplyFilters(current_configs, fs) ==
    IF fs # <<>> THEN FilterLoop(current_configs, fs) ELSE current_configs

\* Materialization with the filters evaluated before the modifiers are applied.
MaterializeFilterFirst(base, mods, fs) ==
    LET kept == ApplyFilters(base, fs)
        modified == ApplyModifiers(kept, mods)
    IN [configs |-> [i \in DOMAIN modified |-> modified[i].config],
        calls |-> [i \in DOMAIN modified |-> modified[i].calls],
        base |-> [i \in DOMAIN base |-> MutatedOne(base[i], mods)]]

\* The materialized sequence, and the modifier calls made for each configuration.
Materialize(base, mods, fs) ==
    LET modified == ApplyModifiers(base, mods)
    IN [configs |-> ApplyFilters([i \in DOMAIN modified |-> modified[i].config], fs),
        calls |-> [i \in DOMAIN modified |-> modified[i].calls],
        base |-> [i \in DOMAIN base |-> MutatedOne(base[i], mods)]]

(***************************************************************************)
(* ExpManager._are_configs_equal.                                          *)
(***************************************************************************)
\* tuple(x) if isinstance(x, list) else x
\* The comparison without the conversion of lists.
NoConversion(v) == v

\* The comparison restricted to the ignored keys instead of the others.
AreConfigsEqualOnIgnored(config1, config2, ignore_keys) ==
    \A key \in ((DOMAIN config1) \cap (DOMAIN config2)) \cap ignore_keys :
        config1[key] = config2[key]

\* The comparison converting a list on the side of the first dictionary only.
AreConfigsEqualOneSided(config1, config2, ignore_keys) ==
    \A key \in ((DOMAIN config1) \cap (DOMAIN config2)) \ ignore_keys :
        (IF config1[key].ty = "list" THEN [config1[key] EXCEPT !.ty = "tuple"]
         ELSE config1[key]) = config2[key]

\* tuple(x) if isinstance(x, list) else x
ListToTuple(v) == IF v.ty = "list" THEN [v EXCEPT !.ty = "tuple"] ELSE v

AreConfigsEqual(config1, config2, ignore_keys) ==
    LET keys1 == (DOMAIN config1) \ ignore_keys
        keys2 == (DOMAIN config2) \ ignore_keys
        common_keys == keys1 \cap keys2
    IN \A key \in common_keys : ListToTuple(config1[key]) = ListToTuple(config2[key])

(***************************************************************************)
(* ExpRunner._run_single_experiment, lines 47-66: the run identifier, the  *)
(* enriched configuration and the snapshot written to args.json.  A run    *)
(* identifier (timestamp and uuid suffix) is a number; the results root is *)
(* the path component 0.                                                   *)
(***************************************************************************)
SettingName(id) == Str(<<id>>)

SettingPath(id) == PathOf(<<0, id>>)

\* str(path)
StrOfPath(p) == [p EXCEPT !.ty = "str"]

\* args.setting = setting_name; args.setting_path = setting_path
Enrich(args, id) ==
    SetAttr(SetAttr(args, "setting", SettingName(id)), "setting_path", SettingPath(id))

\* args_to_save = vars(args).copy(); args_to_save['setting_path'] = str(args.setting_path)
ArgsToSave(args) == SetAttr(args, "setting_path", StrOfPath(args["setting_path"]))

(***************************************************************************)
(* The state.                                                              *)
(***************************************************************************)
VARIABLES
    \* the results root: its subdirectories and the files in them
    dirs,           \* the run directories that exist
    args_json,      \* directory -> the dictionary json.load reads from its args.json
    success,        \* the directories holding _SUCCESS
    error_log,      \* the directories holding error.log
    results_json,   \* directory -> the dictionary read from the callable's results.json
    \* ExpManager
    base_args,      \* the Namespace the manager was built from
    base_configs,   \* self._base_configs
    configs,        \* self._configs
    modifiers,      \* self._modifiers
    filters,        \* self._filters
    is_generated,   \* self._is_generated
    aliased,        \* whether self._configs is the list object self._base_configs
    \* history of the calls made on the manager
    mod_log,        \* per configuration processed, the modifier slots called on it
    gen,            \* what the first materialization read and produced
    stable,         \* the sequence as the last materializing or reordering call left it
    last,           \* the last public call: its name, arguments, pre-state and result
    n_ops,          \* the number of public calls made
    \* the caller's script and ExpRunner
    script,         \* the stages the pipeline was built with
    queue,          \* self.configs of the runner
    mode,           \* execution_mode of the run() call
    num_workers,    \* num_workers of the run() call
    coord,          \* where the run() call stands
    exc,            \* the exception that left run(), "none" if none
    runs,           \* per configuration of the queue, its _run_single_experiment call
    next_id,        \* the next unused run identifier
    resumed,        \* what a fresh pipeline with filter_completed gave after the run
    dyn,            \* _dynamic_parallel_run: where its loop stands and the last load sample
    \* _are_configs_equal on its own
    eq,             \* the two dictionaries, the ignored keys and the result
    \* ResultAnalyzer
    tool            \* the last call on the analyzer: its arguments and what it gave

storeVars == <<dirs, args_json, success, error_log>>
mgrVars == <<base_args, base_configs, configs, modifiers, filters, is_generated, aliased>>
histVars == <<mod_log, gen, stable, last, n_ops>>
engVars == <<script, queue, mode, num_workers, coord, exc, runs, next_id, resumed, dyn>>
toolVars == <<results_json, tool>>
vars == <<storeVars, mgrVars, histVars, engVars, eq, toolVars>>

(***************************************************************************)
(* ExpManager._load_completed_configs with utils.get_subdirectories and    *)
(* utils.load_json: the snapshots of the immediate subdirectories that     *)
(* hold an args.json, an empty dictionary skipped.  The order of the list  *)
(* is the directory listing's; only membership is used.                    *)
(***************************************************************************)
\* The loader reading only the directories that hold _SUCCESS.
LoadSuccessfulConfigs ==
    {args_json[folder] : folder \in {d \in dirs : d \in DOMAIN args_json /\ d \in success}}

LoadCompletedConfigs ==
    {args_json[folder] : folder \in {d \in dirs : d \in DOMAIN args_json /\ DOMAIN args_json[d] # {}}}

(***************************************************************************)
(* The manager as one record, and _generate_if_needed on it.               *)
(***************************************************************************)
Mgr ==
    [base_configs |-> base_configs, configs |-> configs, modifiers |-> modifiers,
     filters |-> filters, is_generated |-> is_generated, aliased |-> aliased,
     mod_log |-> mod_log, gen |-> gen]

NoGen == [base |-> <<>>, mods |-> <<>>, fs |-> <<>>, configs |-> <<>>]

\* ExpManager.__init__
NewManager(args) ==
    [base_configs |-> <<args>>, configs |-> <<>>, modifiers |-> <<>>, filters |-> <<>>,
     is_generated |-> FALSE, aliased |-> FALSE, mod_log |-> <<>>, gen |-> NoGen]

\* _generate_if_needed without the check of the flag.
GenerateAlways(m) ==
    LET r == Materialize(m.base_configs, m.modifiers, m.filters)
    IN [m EXCEPT !.configs = r.configs,
                 !.base_configs = r.base,
                 !.is_generated = TRUE,
                 !.aliased = (m.modifiers = <<>> /\ m.filters = <<>>),
                 !.mod_log = @ \o r.calls,
                 !.gen = IF m.is_generated THEN @
                         ELSE [base |-> m.base_configs, mods |-> m.modifiers,
                               fs |-> m.filters, configs |-> r.configs]]

GenerateIfNeeded(m) ==
    IF m.is_generated THEN m
    ELSE LET r == Materialize(m.base_configs, m.modifiers, m.filters)
         IN [m EXCEPT !.configs = r.configs,
                      !.base_configs = r.base,
                      !.is_generated = TRUE,
                      !.aliased = (m.modifiers = <<>> /\ m.filters = <<>>),
                      !.mod_log = @ \o r.calls,
                      !.gen = [base |-> m.base_configs, mods |-> m.modifiers,
                               fs |-> m.filters, configs |-> r.configs]]

\* ExpManager.filter_completed, lines 105-122, on a materialized manager.
UnrunConfigs(cfgs, completed_configs, ignore_keys) ==
    SelectSeq(cfgs, LAMBDA config :
        ~(\E completed \in completed_configs : AreConfigsEqual(config, completed, ignore_keys)))

FilterCompletedOn(m, completed_configs, ignore_keys) ==
    LET g == GenerateIfNeeded(m)
    IN IF completed_configs = {} THEN g
       ELSE [g EXCEPT !.configs = UnrunConfigs(g.configs, completed_configs, ignore_keys),
                      !.aliased = FALSE]

(***************************************************************************)
(* The inputs the pipeline is driven with.                                 *)
(***************************************************************************)
ParamDicts ==
    {<<>>,
     <<[key |-> "lr", values |-> <<>>]>>,
     <<[key |-> "lr", values |-> <<Scalar(1), Scalar(2)>>]>>,
     <<[key |-> "model", values |-> <<Scalar(2), Scalar(2)>>]>>,
     <<[key |-> "lr", values |-> <<Scalar(1), Scalar(2)>>],
       [key |-> "model", values |-> <<Scalar(1), Scalar(2)>>]>>}

IgnoreChoices == {{}, {"lr"}, {"lr", "model", "layers"}}

FlatTuple == TupleOf(<<Atom(1), Atom(2)>>)
FlatList == ListOf(<<Atom(1), Atom(2)>>)
NestedTuple == ListOf(<<ElemTuple(<<1, 2>>)>>)

BaseChoices ==
    {[k \in {"lr", "model", "layers"} |->
        IF k = "layers" THEN l ELSE Scalar(1)] : l \in {FlatTuple}}

\* Earlier runs a results root may hold: the configuration run, whether its
\* snapshot was written, and the outcome artifact left.
PastRuns ==
    {[id |-> 1, args |-> [k \in {"lr", "model", "layers"} |->
                            IF k = "layers" THEN FlatTuple ELSE Scalar(1)],
      snapshot |-> TRUE, outcome |-> "success"],
     [id |-> 2, args |-> [k \in {"lr", "model", "layers"} |->
                            IF k = "layers" THEN FlatTuple ELSE Scalar(2)],
      snapshot |-> TRUE, outcome |-> "error"],
     [id |-> 3, args |-> [k \in {"lr"} |-> Scalar(2)],
      snapshot |-> TRUE, outcome |-> "none"],
     [id |-> 4, args |-> [k \in {"lr"} |-> Scalar(1)],
      snapshot |-> FALSE, outcome |-> "none"]}

\* The args.json a run writes: the enriched configuration through JSON.
Snapshot(args, id) == JsonDict(ArgsToSave(Enrich(args, id)))

\* The results roots the pipeline is pointed at: an empty one, one with a
\* successful, a failed and an unfinished run, and one with a lean snapshot.
StoreChoices ==
    {{}, {r \in PastRuns : r.id \in {1, 2, 4}}, {r \in PastRuns : r.id \in {3, 4}}}

StoreOf(past) ==
    [dirs |-> {r.id : r \in past},
     args_json |-> [d \in {r.id : r \in {x \in past : x.snapshot}} |->
                      LET r == CHOOSE x \in past : x.id = d IN Snapshot(r.args, r.id)],
     success |-> {r.id : r \in {x \in past : x.outcome = "success"}},
     error_log |-> {r.id : r \in {x \in past : x.outcome = "error"}}]

(***************************************************************************)
(* SpecPipeline: the public calls of one ExpManager.                       *)
(***************************************************************************)
\* A call: its name, the sequence it worked on (pre), whether the manager was
\* materialized when it was made, its arguments and the sequence it returned.
NoCall ==
    [op |-> "init", pre |-> <<>>, pre_generated |-> FALSE,
     arg |-> <<>>, ign |-> {}, ret |-> <<>>]

Call(op, pre, arg, ign, ret) ==
    [op |-> op, pre |-> pre, pre_generated |-> is_generated,
     arg |-> arg, ign |-> ign, ret |-> ret]

SetManager(m) ==
    /\ base_configs' = m.base_configs
    /\ configs' = m.configs
    /\ modifiers' = m.modifiers
    /\ filters' = m.filters
    /\ is_generated' = m.is_generated
    /\ aliased' = m.aliased
    /\ mod_log' = m.mod_log
    /\ gen' = m.gen

InitManager(args) ==
    /\ base_args = args
    /\ base_configs = NewManager(args).base_configs
    /\ configs = NewManager(args).configs
    /\ modifiers = NewManager(args).modifiers
    /\ filters = NewManager(args).filters
    /\ is_generated = NewManager(args).is_generated
    /\ aliased = NewManager(args).aliased
    /\ mod_log = NewManager(args).mod_log
    /\ gen = NewManager(args).gen
    /\ stable = <<>>
    /\ last = NoCall
    /\ n_ops = 0

InitStore(st) ==
    /\ dirs = st.dirs
    /\ args_json = st.args_json
    /\ success = st.success
    /\ error_log = st.error_log

\* The first identifier a new run gets: above those of the earlier runs.
FirstId == 5

NotResumed == [done |-> FALSE, configs |-> <<>>, probe |-> <<>>]

\* _dynamic_parallel_run not entered.
NoLoop == [at |-> "none", cpu |-> "none", exc |-> "none"]

\* No runner constructed.
InitEngine(stages) ==
    /\ script = stages
    /\ queue = <<>>
    /\ mode = "none"
    /\ num_workers = 0
    /\ coord = "new"
    /\ exc = "none"
    /\ runs = <<>>
    /\ next_id = FirstId
    /\ resumed = NotResumed
    /\ dyn = NoLoop

\* No result file in the results root and no call made on an analyzer.
NoToolCall ==
    [op |-> "none", name |-> "", filter_func |-> "none", dry_run |-> TRUE,
     asked |-> FALSE, confirm |-> "", targets |-> {}, records |-> <<>>]

InitTool ==
    /\ results_json = <<>>
    /\ tool = NoToolCall

NoComparison == [c1 |-> <<>>, c2 |-> <<>>, ignore_keys |-> {}, done |-> FALSE, ret |-> FALSE]

InitPipeline ==
    /\ \E args \in BaseChoices : InitManager(args)
    /\ \E past \in StoreChoices : InitStore(StoreOf(past))
    /\ InitEngine(<<>>)
    /\ eq = NoComparison
    /\ InitTool

AddGridSearch(param_grid) ==
    /\ n_ops < MaxOps
    /\ Len(GridSearch(base_configs, param_grid)) <= MaxConfigs
    /\ SetManager([Mgr EXCEPT !.base_configs = GridSearch(base_configs, param_grid),
                              !.aliased = IF param_grid = <<>> THEN @ ELSE FALSE])
    /\ last' = Call("add_grid_search", base_configs, param_grid, {}, <<>>)
    /\ n_ops' = n_ops + 1
    /\ UNCHANGED <<storeVars, base_args, stable, engVars, eq, toolVars>>

\* add_variants expanding the configuration the manager was built from, not
\* the current set.
AddVariantsOfBase(variant_space) ==
    /\ n_ops < MaxOps
    /\ Len(Variants(<<base_args>>, variant_space)) <= MaxConfigs
    /\ SetManager([Mgr EXCEPT !.base_configs = Variants(<<base_args>>, variant_space),
                              !.aliased = IF variant_space = <<>> THEN @ ELSE FALSE])
    /\ last' = Call("add_variants", base_configs, variant_space, {}, <<>>)
    /\ n_ops' = n_ops + 1
    /\ UNCHANGED <<storeVars, base_args, stable, engVars, eq, toolVars>>

AddVariants(variant_space) ==
    /\ n_ops < MaxOps
    /\ Len(Variants(base_configs, variant_space)) <= MaxConfigs
    /\ SetManager([Mgr EXCEPT !.base_configs = Variants(base_configs, variant_space),
                              !.aliased = IF variant_space = <<>> THEN @ ELSE FALSE])
    /\ last' = Call("add_variants", base_configs, variant_space, {}, <<>>)
    /\ n_ops' = n_ops + 1
    /\ UNCHANGED <<storeVars, base_args, stable, engVars, eq, toolVars>>

AddModifier(modifier_func) ==
    /\ n_ops < MaxOps
    /\ Len(modifiers) < MaxFuncs
    /\ SetManager([Mgr EXCEPT !.modifiers = Append(@, modifier_func)])
    /\ last' = Call("add_modifier", <<>>, <<>>, {}, <<>>)
    /\ n_ops' = n_ops + 1
    /\ UNCHANGED <<storeVars, base_args, stable, engVars, eq, toolVars>>

\* add_filter clearing the flag, so that the next call materializes again.
AddFilterInvalidating(filter_func) ==
    /\ n_ops < MaxOps
    /\ Len(filters) < MaxFuncs
    /\ SetManager([Mgr EXCEPT !.filters = Append(@, filter_func), !.is_generated = FALSE])
    /\ last' = Call("add_filter", <<>>, <<>>, {}, <<>>)
    /\ n_ops' = n_ops + 1
    /\ UNCHANGED <<storeVars, base_args, stable, engVars, eq, toolVars>>

AddFilter(filter_func) ==
    /\ n_ops < MaxOps
    /\ Len(filters) < MaxFuncs
    /\ SetManager([Mgr EXCEPT !.filters = Append(@, filter_func)])
    /\ last' = Call("add_filter", <<>>, <<>>, {}, <<>>)
    /\ n_ops' = n_ops + 1
    /\ UNCHANGED <<storeVars, base_args, stable, engVars, eq, toolVars>>

Shuffle ==
    /\ n_ops < MaxOps
    /\ LET g == GenerateIfNeeded(Mgr)
       IN /\ Len(g.configs) <= MaxShuffle
          /\ \E shuffled \in Perms(g.configs) :
                /\ SetManager([g EXCEPT !.configs = shuffled,
                                        !.base_configs = IF g.aliased THEN shuffled ELSE @])
                /\ stable' = shuffled
          /\ last' = Call("shuffle", g.configs, <<>>, {}, <<>>)
    /\ n_ops' = n_ops + 1
    /\ UNCHANGED <<storeVars, base_args, engVars, eq, toolVars>>

FilterCompleted(ignore_keys) ==
    /\ n_ops < MaxOps
    /\ LET m == FilterCompletedOn(Mgr, LoadCompletedConfigs, ignore_keys)
       IN /\ SetManager(m)
          /\ stable' = m.configs
          /\ last' = Call("filter_completed", GenerateIfNeeded(Mgr).configs, <<>>, ignore_keys, <<>>)
    /\ n_ops' = n_ops + 1
    /\ UNCHANGED <<storeVars, base_args, engVars, eq, toolVars>>

GetConfigs ==
    /\ n_ops < MaxOps
    /\ LET g == GenerateIfNeeded(Mgr)
       IN /\ SetManager(g)
          /\ stable' = IF is_generated THEN stable ELSE g.configs
          /\ last' = Call("get_configs", <<>>, <<>>, {}, g.configs)
    /\ n_ops' = n_ops + 1
    /\ UNCHANGED <<storeVars, base_args, engVars, eq, toolVars>>

NextPipeline ==
    \/ \E param_grid \in ParamDicts : AddGridSearch(param_grid)
    \/ \E variant_space \in ParamDicts : AddVariants(variant_space)
    \/ \E modifier_func \in ModifierNames : AddModifier(modifier_func)
    \/ \E filter_func \in FilterNames : AddFilter(filter_func)
    \/ Shuffle
    \/ \E ignore_keys \in IgnoreChoices : FilterCompleted(ignore_keys)
    \/ GetConfigs

SpecPipeline == InitPipeline /\ [][NextPipeline]_vars

(***************************************************************************)
(* SpecEq: ExpManager._are_configs_equal applied once to two dictionaries  *)
(* and a list of ignored keys drawn from the sets below.                   *)
(***************************************************************************)
NestedList == JsonValue(NestedTuple)

EqValues(k) ==
    CASE k = "lr" -> {Scalar(1), Scalar(2)}
      [] k = "model" -> {Scalar(1)}
      [] k = "seed" -> {Scalar(7)}
      [] k = "layers" -> {FlatTuple, FlatList, TupleOf(<<Atom(2), Atom(1)>>),
                          NestedTuple, NestedList}

EqKeys == {"lr", "model", "seed", "layers"}

EqConfigs ==
    UNION {{c \in [K -> UNION {EqValues(k) : k \in K}] : \A k \in K : c[k] \in EqValues(k)} :
              K \in SUBSET EqKeys}

EqIgnoreChoices == {{}, {"lr"}, {"layers"}, {"lr", "layers"}}

InitEq ==
    /\ \E args \in BaseChoices : InitManager(args)
    /\ InitStore(StoreOf({}))
    /\ InitEngine(<<>>)
    /\ InitTool
    /\ \E c1 \in EqConfigs, c2 \in EqConfigs, ignore_keys \in EqIgnoreChoices :
          eq = [c1 |-> c1, c2 |-> c2, ignore_keys |-> ignore_keys, done |-> FALSE, ret |-> FALSE]

Compare ==
    /\ ~eq.done
    /\ eq' = [eq EXCEPT !.done = TRUE,
                        !.ret = AreConfigsEqual(eq.c1, eq.c2, eq.ignore_keys)]
    /\ UNCHANGED <<storeVars, mgrVars, histVars, engVars, toolVars>>

NextEq == Compare

SpecEq == InitEq /\ [][NextEq]_vars

(***************************************************************************)
(* Spec: a caller's script.  It builds a pipeline from a base and stages,  *)
(* hands get_configs() to an ExpRunner, calls run() once, and afterwards   *)
(* builds the pipeline again and calls filter_completed on the results     *)
(* root.                                                                   *)
(***************************************************************************)
MaxWorkers == 2

\* One stage call on a manager not yet materialized.
Stage(m, st) ==
    CASE st.op = "add_grid_search" -> [m EXCEPT !.base_configs = GridSearch(@, st.arg)]
      [] st.op = "add_variants" -> [m EXCEPT !.base_configs = Variants(@, st.arg)]
      [] st.op = "add_modifier" -> [m EXCEPT !.modifiers = Append(@, st.arg)]
      [] st.op = "add_filter" -> [m EXCEPT !.filters = Append(@, st.arg)]

RECURSIVE BuildPipeline(_, _)
BuildPipeline(m, stages) ==
    IF stages = <<>> THEN m
    ELSE Stage(BuildPipeline(m, SubSeq(stages, 1, Len(stages) - 1)), stages[Len(stages)])

\* The scripts: no stage (one configuration); two variants (three
\* configurations); a grid of two by two with a modifier and a filter (two
\* equal configurations survive); a grid with an empty list (no
\* configuration).
Scripts ==
    {<<>>,
     <<[op |-> "add_variants",
        arg |-> <<[key |-> "lr", values |-> <<Scalar(2), Scalar(3)>>]>>]>>,
     <<[op |-> "add_grid_search",
        arg |-> <<[key |-> "lr", values |-> <<Scalar(1), Scalar(2)>>],
                  [key |-> "model", values |-> <<Scalar(1), Scalar(2)>>]>>],
       [op |-> "add_modifier", arg |-> "rescale"],
       [op |-> "add_filter", arg |-> "keep_plain"]>>,
     <<[op |-> "add_grid_search", arg |-> <<[key |-> "lr", values |-> <<>>]>>]>>}

\* The bases of the scripts: a flat tuple, or a list holding a tuple.
EngineBases ==
    {[k \in {"lr", "model", "layers"} |->
        IF k = "layers" THEN l ELSE Scalar(1)] : l \in {FlatTuple, NestedTuple}}

\* The results roots a script starts with: empty, or holding a successful run
\* of another experiment.
EngineStores == {{}, {r \in PastRuns : r.id = 3}}

\* The execution modes passed to run(); "threads" stands for any string that
\* names no mode.
Modes == {"sequential", "process_pool", "joblib", "dynamic", "threads"}

PoolModes == {"process_pool", "joblib"}

Init ==
    /\ \E args \in EngineBases : \E stages \in Scripts :
          /\ InitManager(args)
          /\ InitEngine(stages)
    /\ \E past \in EngineStores : InitStore(StoreOf(past))
    /\ eq = NoComparison
    /\ InitTool

\* The part of the script before the runner: its next stage call.
ScriptStage ==
    /\ coord = "new"
    /\ n_ops < Len(script)
    /\ LET st == script[n_ops + 1]
       IN \/ st.op = "add_grid_search" /\ AddGridSearch(st.arg)
          \/ st.op = "add_variants" /\ AddVariants(st.arg)
          \/ st.op = "add_modifier" /\ AddModifier(st.arg)
          \/ st.op = "add_filter" /\ AddFilter(st.arg)

\* A call of _run_single_experiment not yet made.
Queued(args) ==
    [pc |-> "queued", id |-> 0, args |-> args, outcome |-> "none", error |-> "none",
     called |-> FALSE]

\* ExpRunner(manager.get_configs(), exp_function, results_root)
NewRunner ==
    /\ coord = "new"
    /\ n_ops = Len(script)
    /\ LET g == GenerateIfNeeded(Mgr)
       IN /\ SetManager(g)
          /\ stable' = g.configs
          /\ last' = Call("get_configs", <<>>, <<>>, {}, g.configs)
          /\ queue' = g.configs
          /\ runs' = [i \in DOMAIN g.configs |-> Queued(g.configs[i])]
    /\ n_ops' = n_ops + 1
    /\ coord' = "ready"
    /\ UNCHANGED <<storeVars, base_args, eq, toolVars, dyn>>
    /\ UNCHANGED <<script, mode, num_workers, exc, next_id, resumed>>

\* ExpRunner.run up to the dispatch: an empty list returns at once, whatever
\* the mode; a string that names no mode raises ValueError.  In dynamic mode
\* logging.basicConfig opens ./my_results/dynamic.log, which raises
\* FileNotFoundError when the working directory has no my_results; then
\* _dynamic_parallel_run submits every configuration to the pool (line 141)
\* and enters its loop.
Run(execution_mode, workers) ==
    /\ coord = "ready"
    /\ mode' = execution_mode
    /\ num_workers' = workers
    /\ IF queue = <<>> THEN coord' = "returned" /\ exc' = exc /\ dyn' = dyn
       ELSE IF execution_mode \notin {"sequential", "dynamic"} \cup PoolModes
            THEN coord' = "raised" /\ exc' = "ValueError" /\ dyn' = dyn
            ELSE IF execution_mode = "dynamic"
                 THEN \/ coord' = "raised" /\ exc' = "FileNotFoundError" /\ dyn' = dyn
                      \/ coord' = "running" /\ exc' = exc /\ dyn' = [dyn EXCEPT !.at = "sample"]
                 ELSE coord' = "running" /\ exc' = exc /\ dyn' = dyn
    /\ UNCHANGED <<storeVars, mgrVars, histVars, eq, toolVars>>
    /\ UNCHANGED <<script, queue, runs, next_id, resumed>>

(***************************************************************************)
(* ExpRunner._run_single_experiment, one action per step of call i.  In    *)
(* sequential mode the calls run one after the other in the caller's       *)
(* process, on the Namespace objects of the list get_configs returned; in  *)
(* the pool modes each call runs in a worker on a pickled copy, at most    *)
(* num_workers at a time, started in the order of the list.                *)
(***************************************************************************)
InFlight == {i \in DOMAIN runs : runs[i].pc \notin {"queued", "done", "escaped", "killed"}}

\* A worker process of the pool has died: ProcessPoolExecutor marks the pool
\* broken, hands no further call to a worker, terminates the workers left and
\* fails every future not yet completed with BrokenProcessPool.
PoolBroken == \E i \in DOMAIN runs : runs[i].error = "died"

\* A pool that starts every call handed to it, whatever its worker count.
CanBeginUnbounded(i) ==
    IF mode = "sequential"
    THEN \A j \in 1..(i - 1) : runs[j].pc = "done"
    ELSE \A j \in 1..(i - 1) : runs[j].pc # "queued"

\* The rule of the pools applied in every mode.
CanBeginAsPool(i) ==
    /\ \A j \in 1..(i - 1) : runs[j].pc # "queued"
    /\ Cardinality(InFlight) < num_workers
    /\ ~PoolBroken

CanBegin(i) ==
    IF mode = "sequential"
    THEN \A j \in 1..(i - 1) : runs[j].pc = "done"
    ELSE /\ \A j \in 1..(i - 1) : runs[j].pc # "queued"
         /\ Cardinality(InFlight) < num_workers
         /\ ~PoolBroken

RunStep(i, r) ==
    /\ runs' = [runs EXCEPT ![i] = r]
    /\ UNCHANGED <<histVars, eq, toolVars, dyn, script, mode, num_workers, coord, exc, resumed>>
    /\ UNCHANGED <<base_args, modifiers, filters, is_generated, aliased>>

\* Lines 47-55: the identifier, and the two attributes set on args.
BeginWith(i, id) ==
    /\ coord = "running"
    /\ runs[i].pc = "queued"
    /\ CanBegin(i)
    /\ LET args == Enrich(runs[i].args, id)
       IN /\ RunStep(i, [runs[i] EXCEPT !.pc = "named", !.id = id, !.args = args])
          /\ IF mode = "sequential"
             THEN /\ queue' = [queue EXCEPT ![i] = args]
                  /\ configs' = [configs EXCEPT ![i] = args]
                  /\ base_configs' = IF aliased THEN [base_configs EXCEPT ![i] = args]
                                     ELSE base_configs
             ELSE UNCHANGED <<queue, configs, base_configs>>
    /\ next_id' = next_id + 1
    /\ UNCHANGED storeVars

\* Lines 47-49 with an identifier no other run of the script was given.
Begin(i) == BeginWith(i, next_id)

\* The identifiers of one second: the timestamp of line 48 is the same for
\* every call made within a second, so the identifier is decided by the six
\* hexadecimal digits of line 47, one of 16^6 values, here one of MaxIds.
MaxIds == 3

SameSecondIds == FirstId..(FirstId + MaxIds - 1)

\* Lines 47-49 as written: uuid4 draws the digits anew at each call and
\* nothing compares the identifier with those already given.
BeginSameSecond(i) == \E id \in SameSecondIds : BeginWith(i, id)

\* Line 62: utils.create_dir, that is os.makedirs, which creates the
\* directory or raises OSError.
CreateDir(i) ==
    /\ coord = "running"
    /\ runs[i].pc = "named"
    /\ \/ /\ dirs' = dirs \cup {runs[i].id}
          /\ RunStep(i, [runs[i] EXCEPT !.pc = "made"])
       \/ /\ dirs' = dirs
          /\ RunStep(i, [runs[i] EXCEPT !.pc = "failed", !.error = "OSError"])
    /\ UNCHANGED <<args_json, success, error_log, queue, configs, base_configs, next_id>>

\* Lines 64-66: the snapshot.
SaveJson(i) ==
    /\ coord = "running"
    /\ runs[i].pc = "made"
    /\ args_json' = [d \in (DOMAIN args_json) \cup {runs[i].id} |->
                        IF d = runs[i].id THEN JsonDict(ArgsToSave(runs[i].args))
                        ELSE args_json[d]]
    /\ RunStep(i, [runs[i] EXCEPT !.pc = "saved"])
    /\ UNCHANGED <<dirs, success, error_log, queue, configs, base_configs, next_id>>

\* The callable entered as soon as the directory exists, the snapshot skipped.
CallFunctionEarly(i) ==
    /\ coord = "running"
    /\ runs[i].pc = "made"
    /\ RunStep(i, [runs[i] EXCEPT !.pc = "calling", !.called = TRUE])
    /\ UNCHANGED <<storeVars, queue, configs, base_configs, next_id>>

\* Line 69: the callable is entered.
CallFunction(i) ==
    /\ coord = "running"
    /\ runs[i].pc = "saved"
    /\ RunStep(i, [runs[i] EXCEPT !.pc = "calling", !.called = TRUE])
    /\ UNCHANGED <<storeVars, queue, configs, base_configs, next_id>>

\* Line 69: the callable returns, raises an Exception, or raises a
\* BaseException that is no Exception (SystemExit, KeyboardInterrupt), which
\* the handler of line 76 does not catch.
Outcomes == {"return", "raise", "exit"}

FunctionEnds(i) ==
    /\ coord = "running"
    /\ runs[i].pc = "calling"
    /\ \E o \in Outcomes :
          RunStep(i, [runs[i] EXCEPT
                        !.outcome = o,
                        !.pc = CASE o = "return" -> "returned"
                                 [] o = "raise" -> "failed"
                                 [] o = "exit" -> "escaped",
                        !.error = CASE o = "return" -> "none"
                                    [] o = "raise" -> "Exception"
                                    [] o = "exit" -> "BaseException"])
    /\ UNCHANGED <<storeVars, queue, configs, base_configs, next_id>>

\* Line 72: the success marker.
Touch(i) ==
    /\ coord = "running"
    /\ runs[i].pc = "returned"
    /\ success' = success \cup {runs[i].id}
    /\ RunStep(i, [runs[i] EXCEPT !.pc = "done"])
    /\ UNCHANGED <<dirs, args_json, error_log, queue, configs, base_configs, next_id>>

\* Lines 76-81: the handler opens error.log in the run directory; without
\* the directory open raises FileNotFoundError, which leaves the call.
ExceptHandler(i) ==
    /\ coord = "running"
    /\ runs[i].pc = "failed"
    /\ IF runs[i].id \in dirs
       THEN /\ error_log' = error_log \cup {runs[i].id}
            /\ RunStep(i, [runs[i] EXCEPT !.pc = "done"])
       ELSE /\ error_log' = error_log
            /\ RunStep(i, [runs[i] EXCEPT !.pc = "escaped", !.error = "FileNotFoundError"])
    /\ UNCHANGED <<dirs, args_json, success, queue, configs, base_configs, next_id>>

\* Lines 112-114, 140-141: the worker process executing call i ends abnormally (killed
\* by a signal, out of memory, os._exit) at any point of the call.
WorkerDies(i) ==
    /\ coord = "running"
    /\ mode \in {"process_pool", "dynamic"}
    /\ i \in InFlight
    /\ ~PoolBroken
    /\ RunStep(i, [runs[i] EXCEPT !.pc = "killed", !.error = "died"])
    /\ UNCHANGED <<storeVars, queue, configs, base_configs, next_id>>

\* Lines 112-114, 140-141: the broken pool terminates the worker executing call i,
\* unless the call ends first.
Terminated(i) ==
    /\ coord = "running"
    /\ PoolBroken
    /\ i \in InFlight
    /\ RunStep(i, [runs[i] EXCEPT !.pc = "killed", !.error = "terminated"])
    /\ UNCHANGED <<storeVars, queue, configs, base_configs, next_id>>

\* run() returning as soon as every call has been handed to the pool.
RunReturnsSubmitted ==
    /\ coord = "running"
    /\ \A i \in DOMAIN runs : runs[i].pc # "queued"
    /\ coord' = "returned"
    /\ UNCHANGED <<storeVars, mgrVars, histVars, eq, toolVars, dyn>>
    /\ UNCHANGED <<script, queue, mode, num_workers, exc, runs, next_id, resumed>>

\* ExpRunner.run, lines 107-132: every call returned.
RunReturns ==
    /\ coord = "running"
    /\ mode # "dynamic"
    /\ \A i \in DOMAIN runs : runs[i].pc = "done"
    /\ coord' = "returned"
    /\ UNCHANGED <<storeVars, mgrVars, histVars, eq, toolVars, dyn>>
    /\ UNCHANGED <<script, queue, mode, num_workers, exc, runs, next_id, resumed>>

\* ExpRunner.run, lines 107-119: an exception that left a call leaves run().
\* In sequential mode the loop ends there; in the pool modes the calls in
\* flight finish, or are terminated with the broken pool, and the calls not
\* yet started are cancelled.  The results are taken in the order of the
\* list, so run() raises what the first call that did not return left: its
\* exception, or BrokenProcessPool when its worker was killed.
RunRaises ==
    /\ coord = "running"
    /\ mode # "dynamic"
    /\ \E i \in DOMAIN runs : runs[i].pc \in {"escaped", "killed"}
    /\ InFlight = {}
    /\ coord' = "raised"
    /\ LET first == CHOOSE i \in DOMAIN runs :
                        /\ runs[i].pc \in {"escaped", "killed"}
                        /\ \A j \in 1..(i - 1) : runs[j].pc \notin {"escaped", "killed"}
       IN exc' = IF runs[first].pc = "killed" THEN "BrokenProcessPool"
                 ELSE runs[first].error
    /\ UNCHANGED <<storeVars, mgrVars, histVars, eq, toolVars, dyn>>
    /\ UNCHANGED <<script, queue, mode, num_workers, runs, next_id, resumed>>

(***************************************************************************)
(* ExpRunner._dynamic_parallel_run, lines 143-163.  The futures of all     *)
(* configurations are in the pool from the start; the pool starts them as  *)
(* its workers get free.  The loop samples the load, and either sleeps or  *)
(* calls as_completed.                                                     *)
(***************************************************************************)
DynamicStep(d) ==
    /\ coord = "running"
    /\ mode = "dynamic"
    /\ dyn' = d
    /\ UNCHANGED <<storeVars, mgrVars, histVars, eq, toolVars>>
    /\ UNCHANGED <<script, queue, mode, num_workers, coord, exc, runs, next_id, resumed>>

\* The load samples: below the threshold, or at or above it.
Loads == {"below", "above"}

\* Lines 143-149, 160-162: while futures; psutil.cpu_percent(interval=1)
\* compared with cpu_threshold.  No future is ever removed before line 158,
\* so the loop condition holds.
CpuPercent(load) ==
    /\ dyn.at = "sample"
    /\ DynamicStep([dyn EXCEPT !.cpu = load,
                               !.at = IF load = "below" THEN "wait" ELSE "sleep"])

\* Line 163: time.sleep(10) ends.
Sleep ==
    /\ dyn.at = "sleep"
    /\ DynamicStep([dyn EXCEPT !.at = "sample"])

\* The futures as_completed can yield: those of the calls that ended, and,
\* once the pool is broken, all of them.
Completed ==
    IF PoolBroken THEN DOMAIN runs
    ELSE {i \in DOMAIN runs : runs[i].pc \in {"done", "escaped"}}

\* Line 151: done, _ = as_completed(futures, timeout=60).  as_completed
\* returns an iterator of the futures in completion order, and the
\* assignment unpacks it into two names: it takes up to three futures from
\* it.  One future in all gives ValueError (not enough values to unpack),
\* three or more give ValueError (too many values); with exactly two, done
\* is a Future and line 156 iterates over it, TypeError.  When the futures
\* needed do not complete within 60 seconds the iterator raises TimeoutError.
AsCompleted ==
    /\ dyn.at = "wait"
    /\ LET n == Len(runs)
           needed == IF n < 3 THEN n ELSE 3
       IN IF Cardinality(Completed) >= needed
          THEN DynamicStep([dyn EXCEPT !.at = "exit",
                                      !.exc = IF n = 2 THEN "TypeError" ELSE "ValueError"])
          ELSE DynamicStep([dyn EXCEPT !.at = "exit", !.exc = "TimeoutError"])

\* Line 140: the exception leaves the with block, whose exit waits for the
\* pool: every call submitted is still run to its end (or the pool is
\* broken), then the exception leaves run().
DynamicRaises ==
    /\ coord = "running"
    /\ mode = "dynamic"
    /\ dyn.at = "exit"
    /\ InFlight = {}
    /\ PoolBroken \/ \A i \in DOMAIN runs : runs[i].pc # "queued"
    /\ coord' = "raised"
    /\ exc' = dyn.exc
    /\ UNCHANGED <<storeVars, mgrVars, histVars, eq, toolVars, dyn>>
    /\ UNCHANGED <<script, queue, mode, num_workers, runs, next_id, resumed>>

\* A configuration that no run of the script was given: lr differs.
Probe == [base_args EXCEPT !["lr"] = Scalar(9)]

\* After run(): ExpManager(base) with the stages of the script, then
\* filter_completed(results_root) with no ignored keys; and the same call on
\* a manager built from the probe.
Resume ==
    /\ coord \in {"returned", "raised"}
    /\ ~resumed.done
    /\ resumed' =
          [done |-> TRUE,
           configs |-> FilterCompletedOn(BuildPipeline(NewManager(base_args), script),
                                         LoadCompletedConfigs, {}).configs,
           probe |-> FilterCompletedOn(NewManager(Probe), LoadCompletedConfigs, {}).configs]
    /\ UNCHANGED <<storeVars, mgrVars, histVars, eq, toolVars, dyn>>
    /\ UNCHANGED <<script, queue, mode, num_workers, coord, exc, runs, next_id>>

Next ==
    \/ ScriptStage
    \/ NewRunner
    \/ \E execution_mode \in Modes : \E workers \in 1..MaxWorkers : Run(execution_mode, workers)
    \/ \E i \in DOMAIN runs : Begin(i)
    \/ \E i \in DOMAIN runs : CreateDir(i)
    \/ \E i \in DOMAIN runs : SaveJson(i)
    \/ \E i \in DOMAIN runs : CallFunction(i)
    \/ \E i \in DOMAIN runs : FunctionEnds(i)
    \/ \E i \in DOMAIN runs : Touch(i)
    \/ \E i \in DOMAIN runs : ExceptHandler(i)
    \/ \E i \in DOMAIN runs : WorkerDies(i)
    \/ \E i \in DOMAIN runs : Terminated(i)
    \/ RunReturns
    \/ RunRaises
    \/ \E load \in Loads : CpuPercent(load)
    \/ Sleep
    \/ AsCompleted
    \/ DynamicRaises
    \/ Resume

Spec == Init /\ [][Next]_vars

(***************************************************************************)
(* SpecIds: the engine with the run identifiers drawn as line 47 draws     *)
(* them, for batches whose calls begin within one second, from the scripts *)
(* of Spec on the base with a flat tuple and an empty results root, in the *)
(* modes that take the results of the calls.                               *)
(***************************************************************************)
InitIds ==
    /\ \E args \in {b \in EngineBases : b["layers"] = FlatTuple} :
          \E stages \in Scripts :
             /\ InitManager(args)
             /\ InitEngine(stages)
    /\ InitStore(StoreOf({}))
    /\ eq = NoComparison
    /\ InitTool

NextIds ==
    \/ ScriptStage
    \/ NewRunner
    \/ \E execution_mode \in Modes \ {"dynamic"} : \E workers \in 1..MaxWorkers : Run(execution_mode, workers)
    \/ \E i \in DOMAIN runs : BeginSameSecond(i)
    \/ \E i \in DOMAIN runs : CreateDir(i)
    \/ \E i \in DOMAIN runs : SaveJson(i)
    \/ \E i \in DOMAIN runs : CallFunction(i)
    \/ \E i \in DOMAIN runs : FunctionEnds(i)
    \/ \E i \in DOMAIN runs : Touch(i)
    \/ \E i \in DOMAIN runs : ExceptHandler(i)
    \/ \E i \in DOMAIN runs : WorkerDies(i)
    \/ \E i \in DOMAIN runs : Terminated(i)
    \/ RunReturns
    \/ RunRaises

SpecIds == InitIds /\ [][NextIds]_vars

(***************************************************************************)
(* SpecDynamic: run('dynamic') on the scripts of SpecIds, in a healthy     *)
(* environment: no worker process dies.  Every step that can be taken is   *)
(* eventually taken (the coordinator and the workers are running           *)
(* processes, each callable ends), and a load that is sampled again and    *)
(* again is eventually sampled below the threshold.                        *)
(***************************************************************************)
NextDynamic ==
    \/ ScriptStage
    \/ NewRunner
    \/ \E workers \in 1..MaxWorkers : Run("dynamic", workers)
    \/ \E i \in DOMAIN runs : Begin(i)
    \/ \E i \in DOMAIN runs : CreateDir(i)
    \/ \E i \in DOMAIN runs : SaveJson(i)
    \/ \E i \in DOMAIN runs : CallFunction(i)
    \/ \E i \in DOMAIN runs : FunctionEnds(i)
    \/ \E i \in DOMAIN runs : Touch(i)
    \/ \E i \in DOMAIN runs : ExceptHandler(i)
    \/ \E load \in Loads : CpuPercent(load)
    \/ Sleep
    \/ AsCompleted
    \/ DynamicRaises

SpecDynamic ==
    /\ InitIds
    /\ [][NextDynamic]_vars
    /\ WF_vars(NextDynamic)
    /\ SF_vars(CpuPercent("below"))

(***************************************************************************)
(* SpecAnalyzer: ResultAnalyzer.to_dataframe and ResultAnalyzer            *)
(* .clean_results on a results root left by earlier runs.                  *)
(***************************************************************************)
\* (folder / name).exists()
HasFile(folder, name) ==
    CASE name = "args.json" -> folder \in DOMAIN args_json
      [] name = "_SUCCESS" -> folder \in success
      [] name = "error.log" -> folder \in error_log
      [] name = "results.json" -> folder \in DOMAIN results_json
      [] OTHER -> FALSE

\* utils.load_json of a file that exists
LoadJson(folder, name) ==
    IF name = "args.json" THEN args_json[folder] ELSE results_json[folder]

\* The truth value of a dictionary: an empty one is false.
Truthy(d) == DOMAIN d # {}

\* record.update(results_data)
Update(record, data) ==
    [k \in (DOMAIN record) \cup (DOMAIN data) |->
        IF k \in DOMAIN data THEN data[k] ELSE record[k]]

\* str(folder.resolve()): the working directory, the results root, the folder.
Resolved(folder) == Str(<<0, 0, folder>>)

\* utils.get_file_creation_time(args_path): a string decided by the file.
CreationTime(folder) == Str(<<folder>>)

\* A folder read with any file in it, the marker not looked at.
IncludedUnmarked(folder) ==
    /\ HasFile(folder, "args.json")
    /\ Truthy(LoadJson(folder, "args.json"))

\* to_dataframe, lines 33-40: the folders a record is made for.
Included(folder) ==
    /\ HasFile(folder, "_SUCCESS")
    /\ HasFile(folder, "args.json")
    /\ Truthy(LoadJson(folder, "args.json"))

\* to_dataframe, lines 37-51: the record of a folder.
RecordOf(folder, results_filename) ==
    LET record == LoadJson(folder, "args.json")
        merged == IF /\ HasFile(folder, results_filename)
                     /\ Truthy(LoadJson(folder, results_filename))
                  THEN Update(record, LoadJson(folder, results_filename))
                  ELSE record
    IN SetAttr(SetAttr(merged, "setting_path", Resolved(folder)),
               "creation_time", CreationTime(folder))

\* The run directories a results root may hold: a successful run with its
\* result file; a successful run whose callable wrote no result file; a run
\* whose callable wrote its result file and then raised; a directory made by
\* a run that was killed before its snapshot.
AnalyzerRuns ==
    {[id |-> 1, args |-> [k \in {"lr", "model"} |-> Scalar(1)],
      snapshot |-> TRUE, outcome |-> "success", result |-> TRUE],
     [id |-> 2, args |-> [k \in {"lr", "model"} |-> IF k = "lr" THEN Scalar(1) ELSE Scalar(2)],
      snapshot |-> TRUE, outcome |-> "success", result |-> FALSE],
     [id |-> 3, args |-> [k \in {"lr", "model"} |-> Scalar(2)],
      snapshot |-> TRUE, outcome |-> "error", result |-> TRUE],
     [id |-> 4, args |-> [k \in {"lr", "model"} |-> Scalar(1)],
      snapshot |-> FALSE, outcome |-> "none", result |-> FALSE]}

\* results = {"accuracy": ...}; utils.save_json(results, setting_path / 'results.json')
ResultsOf(past) ==
    [d \in {r.id : r \in {x \in past : x.result}} |-> [k \in {"accuracy"} |-> Scalar(7)]]

InitAnalyzer ==
    /\ \E args \in BaseChoices : InitManager(args)
    /\ InitEngine(<<>>)
    /\ eq = NoComparison
    /\ \E past \in SUBSET AnalyzerRuns :
          /\ InitStore(StoreOf(past))
          /\ results_json = ResultsOf(past)
    /\ tool = NoToolCall

\* The file names to_dataframe is asked to merge; no run wrote metrics.json.
ResultsFilenames == {"results.json", "metrics.json"}

\* ResultAnalyzer.to_dataframe; the records are kept by the folder they come
\* from.
ToDataframe(results_filename) ==
    /\ tool' = [NoToolCall EXCEPT
                  !.op = "to_dataframe",
                  !.name = results_filename,
                  !.records = [folder \in {f \in dirs : Included(f)} |->
                                  RecordOf(folder, results_filename)]]
    /\ UNCHANGED <<storeVars, results_json, mgrVars, histVars, engVars, eq>>

\* The marker files clean_results is given: the default, the result file, and
\* None (written "").
Markers == {"_SUCCESS", "results.json", ""}

\* filter_for_transformer: config_dict.get('model') == 'Transformer', the
\* model written 2.
FilterForTransformer(config) == "model" \in DOMAIN config /\ config["model"] = Scalar(2)

\* The predicates clean_results is given: None, or filter_for_transformer.
CleanFilters == {"none", "filter_for_transformer"}

\* What the user types at the prompt.
Answers == {"yes", "YES", "no", ""}

\* str.lower
Lower(answer) == IF answer = "YES" THEN "yes" ELSE answer

\* Every folder of the results root marked for deletion.
FoldersToDeleteAll(incomplete_marker, filter_func) == dirs

\* clean_results, lines 138-153: the folders marked for deletion.
FoldersToDelete(incomplete_marker, filter_func) ==
    {folder \in dirs :
        \/ incomplete_marker # "" /\ ~HasFile(folder, incomplete_marker)
        \/ /\ filter_func # "none"
           /\ HasFile(folder, "args.json")
           /\ Truthy(LoadJson(folder, "args.json"))
           /\ FilterForTransformer(LoadJson(folder, "args.json"))}

\* shutil.rmtree on each folder: the folders in removed are gone; those in
\* emptied lost their files before rmtree raised; the others are as they were.
Rmtree(removed, emptied) ==
    LET gone == removed \cup emptied
    IN /\ dirs' = dirs \ removed
       /\ args_json' = [d \in (DOMAIN args_json) \ gone |-> args_json[d]]
       /\ success' = success \ gone
       /\ error_log' = error_log \ gone
       /\ results_json' = [d \in (DOMAIN results_json) \ gone |-> results_json[d]]

\* ResultAnalyzer.clean_results; confirm is what input() returns when the
\* prompt of line 167 is reached.
CleanResults(incomplete_marker, filter_func, dry_run, confirm) ==
    LET folders_to_delete == FoldersToDelete(incomplete_marker, filter_func)
        asked == folders_to_delete # {} /\ ~dry_run
    IN /\ tool' = [NoToolCall EXCEPT
                     !.op = "clean_results",
                     !.name = incomplete_marker,
                     !.filter_func = filter_func,
                     !.dry_run = dry_run,
                     !.asked = asked,
                     !.confirm = IF asked THEN confirm ELSE "",
                     !.targets = folders_to_delete]
       /\ IF asked /\ Lower(confirm) = "yes"
          THEN \E removed \in SUBSET folders_to_delete :
                  \E emptied \in SUBSET (folders_to_delete \ removed) :
                     Rmtree(removed, emptied)
          ELSE UNCHANGED <<storeVars, results_json>>
       /\ UNCHANGED <<mgrVars, histVars, engVars, eq>>

NextAnalyzer ==
    \/ \E results_filename \in ResultsFilenames : ToDataframe(results_filename)
    \/ \E incomplete_marker \in Markers, filter_func \in CleanFilters,
          dry_run \in BOOLEAN, confirm \in Answers :
          CleanResults(incomplete_marker, filter_func, dry_run, confirm)

SpecAnalyzer == InitAnalyzer /\ [][NextAnalyzer]_vars

(***************************************************************************)
(* SpecStages: the scripts up to the construction of the runner, for every *)
(* sequence of at most MaxStages stage calls drawn from StageChoices.      *)
(***************************************************************************)
MaxStages == 3

GridLr == [op |-> "add_grid_search",
           arg |-> <<[key |-> "lr", values |-> <<Scalar(2), Scalar(3)>>]>>]
VariantsModel == [op |-> "add_variants",
                  arg |-> <<[key |-> "model", values |-> <<Scalar(2), Scalar(3)>>]>>]
VariantsLr == [op |-> "add_variants", arg |-> <<[key |-> "lr", values |-> <<Scalar(4)>>]>>]

StageChoices ==
    {GridLr, VariantsModel, VariantsLr,
     [op |-> "add_grid_search", arg |-> <<>>],
     [op |-> "add_modifier", arg |-> "rescale"],
     [op |-> "add_filter", arg |-> "keep_plain"]}

StageScripts == UNION {[1..n -> StageChoices] : n \in 0..MaxStages}

InitStages ==
    /\ \E args \in BaseChoices : \E stages \in StageScripts :
          /\ InitManager(args)
          /\ InitEngine(stages)
    /\ InitStore(StoreOf({}))
    /\ eq = NoComparison
    /\ InitTool

NextStages ==
    \/ ScriptStage
    \/ NewRunner

SpecStages == InitStages /\ [][NextStages]_vars

(***************************************************************************)
(* Properties of the pipeline, checked under SpecPipeline.                 *)
(***************************************************************************)
\* The subsequence of s at the positions satisfying Keep, in order.
SubSeqAt(s, Keep(_)) ==
    LET idx == SelectSeq([i \in DOMAIN s |-> i], Keep)
    IN [j \in DOMAIN idx |-> s[idx[j]]]

\* The number of positions of s holding x.
Count(s, x) == Cardinality({i \in DOMAIN s : s[i] = x})

\* The deduplication rule as the specification words it: on every key both
\* sides have and that is not ignored the values are equal, a list or a tuple
\* equal to a list or a tuple with the same elements in the same order.
IsSequence(v) == v.ty \in {"list", "tuple"}

SameValue(x, y) == x = y \/ (IsSequence(x) /\ IsSequence(y) /\ x.el = y.el)

Matches(a, b, ignored) ==
    \A k \in ((DOMAIN a) \cap (DOMAIN b)) \ ignored : SameValue(a[k], b[k])

\* Every args.json under the results root, whatever else its directory holds.
AllSnapshots == {args_json[d] : d \in DOMAIN args_json}

\* C4: filter_completed removes exactly the configurations that match at least
\* one snapshot under the results root, every args.json counting whether or not
\* its directory holds _SUCCESS, and keeps the others in their relative order.
C4_FilterCompleted ==
    last.op = "filter_completed" =>
        configs = SubSeqAt(last.pre, LAMBDA i :
                    ~(\E snap \in AllSnapshots : Matches(last.pre[i], snap, last.ign)))

\* A call that removed a configuration for the snapshot of a run without
\* _SUCCESS and kept another one.
C4_Witness ==
    /\ last.op = "filter_completed"
    /\ configs # <<>>
    /\ Len(configs) < Len(last.pre)
    /\ \E i \in DOMAIN last.pre : \E d \in DOMAIN args_json :
          /\ d \notin success
          /\ Matches(last.pre[i], args_json[d], last.ign)
          /\ \A e \in DOMAIN args_json : e \in success => ~Matches(last.pre[i], args_json[e], last.ign)

RECURSIVE Chain(_, _, _)
Chain(c, mods, k) == IF k = 0 THEN c ELSE ModifierFunc(mods[k], Chain(c, mods, k - 1))

\* C7 (state part): no modifier runs before the first materialization; from
\* then on each registered modifier has been called exactly once on each of
\* the n configurations of the expanded set, in registration order, whatever
\* get_configs, shuffle and filter_completed calls were made.
C7_AppliedOnce ==
    IF is_generated
    THEN mod_log = [i \in DOMAIN gen.base |-> [k \in DOMAIN gen.mods |-> k]]
    ELSE mod_log = <<>>

\* C7 (step part): a get_configs call right after a get_configs call returns
\* the identical sequence.
C7_SameTwice ==
    (last.op = "get_configs" /\ last'.op = "get_configs" /\ n_ops' = n_ops + 1)
        => last'.ret = last.ret

\* C7: every registered modifier is applied to every configuration exactly
\* once, in registration order, at the first materialization, and two
\* consecutive get_configs calls return the identical sequence.
C7_ModifiersOnce == [](C7_AppliedOnce) /\ [][C7_SameTwice]_vars

\* A get_configs call on a manager already materialized, with a modifier that
\* changed a configuration of an expanded set of two or more.
C7_Witness ==
    /\ last.op = "get_configs"
    /\ last.pre_generated
    /\ gen.mods # <<>>
    /\ Len(gen.base) >= 2
    /\ \E i \in DOMAIN gen.base : Chain(gen.base[i], gen.mods, Len(gen.mods)) # gen.base[i]

\* C8: the materialized sequence holds exactly the configurations for which
\* every registered filter returns true, each filter evaluated on the
\* configuration after all modifiers, in registration order, were applied to
\* it; the survivors keep their relative order.
C8_FiltersAfterModifiers ==
    is_generated =>
        LET modified == [i \in DOMAIN gen.base |-> Chain(gen.base[i], gen.mods, Len(gen.mods))]
        IN gen.configs = SubSeqAt(modified, LAMBDA i :
                            \A j \in DOMAIN gen.fs : FilterFunc(gen.fs[j], modified[i]))

\* A materialization with a modifier and a filter that dropped a configuration
\* the filter accepts unmodified, and kept another.
C8_Witness ==
    /\ is_generated
    /\ gen.mods # <<>>
    /\ gen.fs # <<>>
    /\ gen.configs # <<>>
    /\ \E i \in DOMAIN gen.base :
          /\ \A j \in DOMAIN gen.fs : FilterFunc(gen.fs[j], gen.base[i])
          /\ \E j \in DOMAIN gen.fs :
                ~FilterFunc(gen.fs[j], Chain(gen.base[i], gen.mods, Len(gen.mods)))

AddOps == {"add_grid_search", "add_variants", "add_modifier", "add_filter"}

\* C9: once the pipeline has materialized, a call to add_grid_search,
\* add_variants, add_modifier or add_filter leaves the sequence get_configs
\* returns unchanged: after such a call get_configs would return, and when
\* called does return, the sequence as the last materializing or reordering
\* call left it.
C9_FrozenAfterMaterialization ==
    /\ (last.op \in AddOps /\ last.pre_generated) =>
            /\ is_generated
            /\ GenerateIfNeeded(Mgr).configs = stable
    /\ (last.op = "get_configs" /\ last.pre_generated) => last.ret = stable

\* A get_configs call on a materialized manager whose stages, modifiers or
\* filters were changed since: materializing them now would give another
\* sequence.
C9_Witness ==
    /\ last.op = "get_configs"
    /\ last.pre_generated
    /\ last.ret # <<>>
    /\ Materialize(base_configs, modifiers, filters).configs # last.ret
    /\ modifiers # gen.mods

\* The configuration add_grid_search builds from configuration c and the
\* values at positions t of the grid's lists.
GridConfig(c, grid, t) ==
    [k \in (DOMAIN c) \cup Range(DictKeys(grid)) |->
        IF k \in Range(DictKeys(grid))
        THEN LET i == CHOOSE i \in DOMAIN grid : grid[i].key = k IN grid[i].values[t[i]]
        ELSE c[k]]

GridPositions(grid) ==
    {t \in [DOMAIN grid -> 1..MaxConfigs] : \A i \in DOMAIN grid : t[i] <= Len(grid[i].values)}

GridSize(grid) == SeqProd([i \in DOMAIN grid |-> Len(grid[i].values)])

\* The number of (configuration, combination) pairs whose configuration is x.
GridPairs(pre, grid, x) ==
    Cardinality({p \in (DOMAIN pre) \X GridPositions(grid) : GridConfig(pre[p[1]], grid, p[2]) = x})

\* The size and the content add_grid_search gives the set: B times the
\* product of the list lengths, one configuration per (configuration,
\* combination) pair, carrying the combination on the grid keys and the
\* original values elsewhere; an empty grid changes nothing.
GridExpansion ==
    IF last.arg = <<>> THEN base_configs = last.pre
    ELSE /\ Len(base_configs) = Len(last.pre) * GridSize(last.arg)
         /\ \A x \in Range(base_configs) \cup
                     {GridConfig(last.pre[p[1]], last.arg, p[2]) :
                        p \in (DOMAIN last.pre) \X GridPositions(last.arg)} :
                Count(base_configs, x) = GridPairs(last.pre, last.arg, x)

\* The combinations of one configuration are pairwise distinct.
GridDistinct ==
    \A t, u \in GridPositions(last.arg) :
        t # u => \E i \in DOMAIN last.arg : last.arg[i].values[t[i]] # last.arg[i].values[u[i]]

NoRepeatedValue(grid) ==
    \A i \in DOMAIN grid : \A a, b \in DOMAIN grid[i].values :
        grid[i].values[a] = grid[i].values[b] => a = b

\* C10 as stated: B times the product of the list lengths configurations, one
\* per pair, each a distinct combination of values on the grid keys.
C10_Original ==
    last.op = "add_grid_search" => (GridExpansion /\ (last.arg # <<>> => GridDistinct))

\* C10, amended: as stated, the combinations being distinct when no list of
\* the grid repeats a value.
C10_GridExpand ==
    last.op = "add_grid_search" =>
        /\ GridExpansion
        /\ (last.arg # <<>> /\ NoRepeatedValue(last.arg)) => GridDistinct

\* A grid of two keys expanded over a set of one configuration that has a key
\* the grid does not name, and a grid over a set of two.
C10_Witness ==
    /\ last.op = "add_grid_search"
    /\ Len(last.arg) = 2
    /\ Len(base_configs) = 4
    /\ \A i \in DOMAIN base_configs : base_configs[i]["layers"] = last.pre[1]["layers"]
    /\ Cardinality(Range(base_configs)) = 4

\* The (key, value) pairs of a variant space, in the order of the dict and,
\* within a key, of its list.
RECURSIVE VariantPairs(_)
VariantPairs(variant_space) ==
    IF variant_space = <<>> THEN <<>>
    ELSE [j \in DOMAIN Head(variant_space).values |->
            [key |-> Head(variant_space).key, value |-> Head(variant_space).values[j]]]
         \o VariantPairs(Tail(variant_space))

\* C11: add_variants on a set of n configurations gives n * (1 + the sum of
\* the list lengths) configurations: the n first, unchanged and in order,
\* then for every key and every value of its list one copy of each original
\* member with only that key overridden; an empty variant space changes
\* nothing.
C11_VariantExpand ==
    last.op = "add_variants" =>
        LET n == Len(last.pre)
            pairs == VariantPairs(last.arg)
        IN IF last.arg = <<>> THEN base_configs = last.pre
           ELSE /\ Len(base_configs) = n * (1 + Len(pairs))
                /\ SubSeq(base_configs, 1, n) = last.pre
                /\ \A q \in DOMAIN pairs : \A b \in 1..n :
                      LET copy == base_configs[q * n + b]
                      IN /\ DOMAIN copy = (DOMAIN last.pre[b]) \cup {pairs[q].key}
                         /\ copy[pairs[q].key] = pairs[q].value
                         /\ \A k \in (DOMAIN copy) \ {pairs[q].key} : copy[k] = last.pre[b][k]

\* A variant space of one key with two values on a set of two different
\* configurations: six configurations.
C11_Witness ==
    /\ last.op = "add_variants"
    /\ Len(last.pre) = 2
    /\ last.pre[1] # last.pre[2]
    /\ Len(VariantPairs(last.arg)) = 2
    /\ Len(base_configs) = 6

\* The number of configurations of the result equal to a configuration of
\* the set the call started with.
UnchangedCount ==
    Cardinality({i \in DOMAIN base_configs : base_configs[i] \in Range(last.pre)})

\* No value of the variant space is the value a configuration of the set
\* already has under that key.
FreshVariantValues ==
    \A q \in DOMAIN VariantPairs(last.arg) : \A b \in DOMAIN last.pre :
        LET pair == VariantPairs(last.arg)[q]
        IN pair.key \in DOMAIN last.pre[b] => last.pre[b][pair.key] # pair.value

\* C12 as stated: exactly n configurations of the result of add_variants are
\* identical to a configuration of the pre-call set.
C12_Original ==
    last.op = "add_variants" => UnchangedCount = Len(last.pre)

\* C12, amended: at least n configurations of the result are identical to a
\* configuration of the pre-call set, and exactly n when no value of the
\* variant space is the value a pre-call configuration already has under
\* that key.
C12_VariantUnchanged ==
    last.op = "add_variants" =>
        /\ UnchangedCount >= Len(last.pre)
        /\ FreshVariantValues => UnchangedCount = Len(last.pre)

\* A call that added copies, none of them equal to a pre-call configuration.
C12_Witness ==
    /\ last.op = "add_variants"
    /\ FreshVariantValues
    /\ Len(last.pre) >= 2
    /\ Len(base_configs) > Len(last.pre)
    /\ UnchangedCount = Len(last.pre)

\* The expansion stages applied in call order, each to the output of the one
\* before.
RECURSIVE ExpandInOrder(_, _)
ExpandInOrder(set, stages) ==
    IF stages = <<>> THEN set
    ELSE LET before == ExpandInOrder(set, SubSeq(stages, 1, Len(stages) - 1))
             st == stages[Len(stages)]
         IN IF st.op = "add_grid_search" THEN GridSearch(before, st.arg)
            ELSE Variants(before, st.arg)

OnlyExpansions(stages) ==
    \A i \in DOMAIN stages : stages[i].op \in {"add_grid_search", "add_variants"}

\* C20: for a sequence of add_grid_search and add_variants calls made before
\* materialization, with no modifier and no filter, the materialized set is
\* the result of applying the stages in call order, each to the output of
\* the previous one; a grid of two lr values followed by two model variants
\* gives six configurations of which exactly two keep the model they had;
\* and a grid and a variant stage on the same key give another set when
\* swapped.  Checked under SpecStages.
C20_StagesInOrder ==
    (is_generated /\ OnlyExpansions(script)) =>
        /\ configs = ExpandInOrder(<<base_args>>, script)
        /\ script = <<GridLr, VariantsModel>> =>
              /\ Len(configs) = 6
              /\ Cardinality({i \in DOMAIN configs :
                                configs[i]["model"] = base_args["model"]}) = 2
        /\ script = <<GridLr, VariantsLr>> =>
              Range(configs) # Range(ExpandInOrder(<<base_args>>, <<VariantsLr, GridLr>>))

\* The script of the example, materialized.
C20_Witness ==
    /\ is_generated
    /\ script = <<GridLr, VariantsModel>>
    /\ Len(configs) = 6
    /\ \E i \in DOMAIN configs : configs[i]["model"] # base_args["model"]

(***************************************************************************)
(* Properties of the engine, checked under Spec.                           *)
(***************************************************************************)
\* What args.json of run i must hold: every parameter of the configuration
\* the run was given, as JSON stores it, the identifier under "setting" and
\* the run directory under "setting_path" as a string.
CompleteSnapshot(i) ==
    LET id == runs[i].id
        given == gen.configs[i]
        params == (DOMAIN given) \ {"setting", "setting_path"}
    IN /\ id \in DOMAIN args_json
       /\ DOMAIN args_json[id] = params \cup {"setting", "setting_path"}
       /\ \A k \in params : args_json[id][k] = JsonValue(given[k])
       /\ args_json[id]["setting"] = Str(<<id>>)
       /\ args_json[id]["setting_path"] = Str(<<0, id>>)

C2_OneOutcomeArtifact ==
    /\ success \cap error_log = {}
    /\ \A i \in DOMAIN runs :
          /\ runs[i].id \in success => runs[i].outcome = "return"
          /\ runs[i].pc \in {"done", "escaped"} =>
                /\ runs[i].id \in success <=> runs[i].outcome = "return"
                /\ runs[i].id \in error_log <=> runs[i].outcome # "return"

\* C3 as stated: an exception raised by the callable or anywhere in the
\* per-run protocol never leaves the run's call nor run(), it produces an
\* error.log in the run's directory, and every other configuration of the
\* batch is still dispatched and reaches its own outcome.
C3_ExceptionsContained ==
    /\ coord = "raised" => exc = "ValueError"
    /\ \A i \in DOMAIN runs :
          /\ runs[i].pc # "escaped"
          /\ (runs[i].pc = "done" /\ runs[i].error # "none") => runs[i].id \in error_log
    /\ coord = "returned" => \A i \in DOMAIN runs : runs[i].pc = "done"

\* C6 as stated: after the engine has dispatched every configuration of the
\* materialized sequence into the results root, a fresh pipeline built from
\* the same base and stages followed by filter_completed with no ignored
\* keys is empty, and a configuration that differs from every dispatched one
\* on a shared key is retained.
C6_ResumeRoundTrip ==
    (resumed.done /\ coord = "returned") =>
        /\ resumed.configs = <<>>
        /\ resumed.probe = <<Probe>>

\* The largest period M of the raising callables.
MaxEvery == 3

Ceil(n, m) == (n + m - 1) \div m

\* The callable of run i has ended as the batch "every M-th callable raises"
\* prescribes: runs 1, M+1, 2M+1, ... raise, the others return.
EveryMthRaises(M) ==
    \A i \in DOMAIN runs :
        runs[i].outcome # "none" =>
            (runs[i].outcome # "return" <=> (i - 1) % M = 0)

\* The run directories of the batch holding the one artifact and not the other.
OnlyIn(have, lack) == {i \in DOMAIN runs : runs[i].id \in have \ lack}

\* C13 as stated: for a batch of N runs in which every M-th callable raises,
\* once run() has ended it has returned normally, exactly N - ceil(N/M) run
\* directories hold _SUCCESS and no error.log, and all the others hold
\* error.log and no _SUCCESS.  The environment is taken as healthy: no
\* makedirs call of the batch failed and no worker process died.
C13_EveryMthRaises ==
    \A M \in 1..MaxEvery :
        LET N == Len(runs)
        IN (/\ coord \in {"returned", "raised"}
            /\ mode \in {"sequential"} \cup PoolModes
            /\ N > 0
            /\ EveryMthRaises(M)
            /\ ~PoolBroken
            /\ \A i \in DOMAIN runs : runs[i].error \notin {"OSError", "FileNotFoundError"})
           => /\ coord = "returned"
              /\ Cardinality(OnlyIn(success, error_log)) = N - Ceil(N, M)
              /\ Cardinality(OnlyIn(error_log, success)) = Ceil(N, M)

\* C14 as stated: for every configuration sequence, the empty one included,
\* run() called with a string that names no execution mode raises, with no
\* run started: no run directory created and the callable never invoked.
C14_InvalidModeRaises ==
    (coord \notin {"new", "ready"} /\ mode \notin {"sequential", "dynamic"} \cup PoolModes) =>
        /\ coord = "raised"
        /\ exc = "ValueError"
        /\ \A i \in DOMAIN runs : runs[i].pc = "queued" /\ ~runs[i].called

\* C15: under process_pool and joblib, when run() has returned every
\* configuration of the sequence was dispatched and its run has finished with
\* its outcome artifact in its run directory; no run is still executing and
\* none was skipped.
C15_PoolWaitsForAll ==
    (mode \in PoolModes /\ coord = "returned") =>
        /\ Len(runs) = Len(queue)
        /\ InFlight = {}
        /\ \A i \in DOMAIN runs :
              /\ runs[i].pc = "done"
              /\ runs[i].called
              /\ runs[i].id \in dirs
              /\ runs[i].id \in success \cup error_log

\* A pool of two workers has returned from a batch of three runs, some
\* successful and some failed.
C15_Witness ==
    /\ mode \in PoolModes
    /\ coord = "returned"
    /\ num_workers = 2
    /\ Len(runs) = 3
    /\ \E i, j \in DOMAIN runs : runs[i].id \in success /\ runs[j].id \in error_log

\* C16 as stated: under process_pool, the abnormal end of one worker process
\* while it executes a run does not make run() fail, and every other run of
\* the batch is still executed to its outcome: none is terminated, and once
\* run() has ended none was left unstarted or unfinished.
C16_WorkerDeathIsolated ==
    (mode = "process_pool" /\ PoolBroken) =>
        /\ coord # "raised"
        /\ \A j \in DOMAIN runs :
              /\ runs[j].error # "terminated"
              /\ (coord # "running" /\ runs[j].error # "died") =>
                    runs[j].pc \in {"done", "escaped"}

(***************************************************************************)
(* Properties of the run identifiers, checked under SpecIds.               *)
(***************************************************************************)
\* C17 as stated: within one batch no two runs are given the same run
\* identifier, so no two runs write args.json, _SUCCESS or error.log into the
\* same run directory.
C17_DistinctRunIds ==
    \A i, j \in DOMAIN runs :
        (i # j /\ runs[i].pc # "queued" /\ runs[j].pc # "queued") =>
            runs[i].id # runs[j].id

(***************************************************************************)
(* Properties of the analyzer, checked under SpecAnalyzer.                 *)
(***************************************************************************)
\* C18: to_dataframe yields a record for a run directory only if the
\* directory contains _SUCCESS: a directory without the marker is never
\* included, even when it holds args.json and the result file; a directory
\* with the marker and the args.json of a run but no result file is included,
\* its record holding the snapshot's parameters and no metrics.
C18_OnlyMarkedRuns ==
    tool.op = "to_dataframe" =>
        /\ \A d \in DOMAIN tool.records : d \in dirs /\ d \in success
        /\ \A d \in dirs :
              (d \in success /\ d \in DOMAIN args_json /\ ~HasFile(d, tool.name)) =>
                 /\ d \in DOMAIN tool.records
                 /\ DOMAIN tool.records[d] =
                       (DOMAIN args_json[d]) \cup {"setting_path", "creation_time"}
                 /\ \A k \in (DOMAIN args_json[d]) \ {"setting_path"} :
                       tool.records[d][k] = args_json[d][k]

\* to_dataframe('results.json') on a root holding a failed run with args.json
\* and results.json (left out), a successful run without results.json (in,
\* no metrics) and a successful run with it (in, with its accuracy).
C18_Witness ==
    /\ tool.op = "to_dataframe"
    /\ tool.name = "results.json"
    /\ \E d \in dirs \ success :
          /\ d \in DOMAIN args_json
          /\ d \in DOMAIN results_json
          /\ d \notin DOMAIN tool.records
    /\ \E d \in success :
          /\ d \notin DOMAIN results_json
          /\ d \in DOMAIN tool.records
          /\ "accuracy" \notin DOMAIN tool.records[d]
    /\ \E d \in success :
          /\ d \in DOMAIN tool.records
          /\ "accuracy" \in DOMAIN tool.records[d]

\* Directory d or a file in it is removed by the step.
Touched(d) ==
    \/ d \notin dirs'
    \/ d \in DOMAIN args_json /\ d \notin DOMAIN args_json'
    \/ d \in success /\ d \notin success'
    \/ d \in error_log /\ d \notin error_log'
    \/ d \in DOMAIN results_json /\ d \notin DOMAIN results_json'

\* Directory d lacks the marker file the call was configured with.
LacksMarker(d, marker) ==
    /\ marker # ""
    /\ CASE marker = "_SUCCESS" -> d \notin success
         [] marker = "results.json" -> d \notin DOMAIN results_json

\* Directory d has an args.json satisfying the caller's predicate.
SatisfiesPredicate(d, predicate) ==
    /\ predicate = "filter_for_transformer"
    /\ d \in DOMAIN args_json
    /\ args_json[d]["model"] = Scalar(2)

\* The step is a clean_results call that removed nothing it should not:
\* whatever it touched met a criterion, and it was told to delete and
\* confirmed by an answer in the set given.
DeletesOnlyOn(answers) ==
    tool'.op = "clean_results" =>
        /\ (tool'.dry_run \/ ~tool'.asked \/ tool'.confirm \notin answers) =>
              UNCHANGED <<storeVars, results_json>>
        /\ \A d \in dirs :
              Touched(d) =>
                 \/ LacksMarker(d, tool'.name)
                 \/ SatisfiesPredicate(d, tool'.filter_func)
        /\ \A d \in dirs \ dirs' : d \in tool'.targets

\* C19 as stated: clean_results deletes a run directory only when dry_run is
\* false, the answer at the confirmation prompt is 'yes', and the directory
\* lacks the configured marker file or has an args.json satisfying the
\* predicate; in preview mode or on any other answer every run directory and
\* file is left unchanged.
C19_Original == [][DeletesOnlyOn({"yes"})]_vars

\* C19: clean_results deletes a run directory only when dry_run is false, the
\* answer at the confirmation prompt is 'yes' in any letter case, and the
\* directory lacks the configured marker file or has an args.json satisfying
\* the predicate; in preview mode or on any other answer every run directory
\* and file is left unchanged.
C19_CleanResults == [][DeletesOnlyOn({"yes", "YES"})]_vars

\* clean_results(filter_func=filter_for_transformer, dry_run=False) answered
\* 'yes' has removed a directory without _SUCCESS and a successful run of the
\* model asked for, and left a successful run of another model with its
\* files.
C19_Witness ==
    /\ tool.op = "clean_results"
    /\ tool.name = "_SUCCESS"
    /\ tool.filter_func = "filter_for_transformer"
    /\ ~tool.dry_run
    /\ tool.confirm = "yes"
    /\ tool.targets = {2, 3, 4}
    /\ dirs = {1}
    /\ 1 \in success
    /\ 1 \in DOMAIN args_json
    /\ 1 \in DOMAIN results_json

(***************************************************************************)
(* Properties of the strategies, checked under Spec.                       *)
(***************************************************************************)
\* C21: under the sequential strategy the runs execute one at a time in the
\* order of the sequence: the run of configuration i+1 has not started, and
\* its directory does not exist, until the run of configuration i has ended
\* and its outcome artifact is written, also when run i failed.
C21_SequentialOrder ==
    mode = "sequential" =>
        /\ Cardinality(InFlight) <= 1
        /\ \A i \in DOMAIN runs :
              (i > 1 /\ (runs[i].pc # "queued" \/ runs[i].id \in dirs)) =>
                 /\ runs[i - 1].pc = "done"
                 /\ runs[i - 1].id \in success \cup error_log

\* Sequential batch of three: the first run failed and left error.log, the
\* second is inside its callable, the third has not started.
C21_Witness ==
    /\ mode = "sequential"
    /\ Len(runs) = 3
    /\ runs[1].outcome = "raise"
    /\ runs[1].id \in error_log
    /\ runs[2].pc = "calling"
    /\ runs[3].pc = "queued"

\* C22 as stated: under the dynamic strategy, while the most recent load
\* sample is at or above the threshold no further run is started, until a
\* later sample falls below it.
C22_PausesAboveThreshold ==
    [][(mode = "dynamic" /\ coord = "running" /\ dyn.cpu = "above" /\ dyn'.cpu = "above") =>
          \A i \in DOMAIN runs : runs[i].pc = "queued" => runs'[i].pc = "queued"]_vars

\* C24: under the dynamic strategy the number of runs executing at the same
\* time never exceeds the worker count given to run().
C24_BoundedInFlight ==
    mode = "dynamic" => Cardinality(InFlight) <= num_workers

\* Dynamic batch of three on two workers: two runs are inside their
\* callables and the third waits for a worker.
C24_Witness ==
    /\ mode = "dynamic"
    /\ num_workers = 2
    /\ Len(runs) = 3
    /\ runs[1].pc = "calling"
    /\ runs[2].pc = "calling"
    /\ runs[3].pc = "queued"

(***************************************************************************)
(* Termination of the dynamic strategy, checked under SpecDynamic.         *)
(***************************************************************************)
\* C23 as stated: under the dynamic strategy, every callable ending and the
\* load eventually staying below the threshold, a run() that has entered its
\* loop eventually returns normally; a wait in which no run completes leads
\* to another wait, never to an exception out of run().
C23_EventuallyReturns ==
    (mode = "dynamic" /\ coord = "running") ~> (coord = "returned")

(***************************************************************************)
(* Properties of every strategy, checked under Spec.                       *)
(***************************************************************************)
\* The strings that name a strategy of run().
Strategies == {"sequential", "process_pool", "joblib", "dynamic"}

\* The callable of run i is entered by the step.
Invoked(i) == runs[i].pc # "calling" /\ runs'[i].pc = "calling"

\* C25 as stated: in every strategy one run() call invokes the callable
\* exactly once for each configuration of the sequence: once run() has ended
\* no configuration was left without its call, whatever failed in an earlier
\* step or an earlier run, and no configuration is invoked a second time.
C25_InvokedExactlyOnce ==
    /\ []((mode \in Strategies /\ coord \in {"returned", "raised"}) =>
             \A i \in DOMAIN runs : runs[i].called)
    /\ [][\A i \in DOMAIN runs : Invoked(i) => ~runs[i].called]_vars

\* C26 as stated: in every strategy, after run() has returned each
\* configuration of the sequence the caller holds (the list get_configs
\* returned, which is the runner's self.configs and the manager's _configs)
\* has the keys and values it had before the call.
C26_SequenceReadOnly ==
    (mode \in Strategies /\ coord = "returned") =>
        /\ queue = stable
        /\ configs = stable

\* The positions of the sequence filter_completed worked on that no loaded
\* snapshot matches when the keys of ignored are ignored.
KeptUnder(ignored) ==
    {i \in DOMAIN last.pre :
        ~(\E completed \in LoadCompletedConfigs :
             AreConfigsEqual(last.pre[i], completed, ignored))}

\* C27: deduplication is monotone in the ignored keys.  After
\* filter_completed with the ignored keys I', for every I that is a subset of
\* I': each configuration and snapshot that match under I match under I', the
\* call returned a subsequence of what it returns with I, and when one loaded
\* snapshot shares no key outside I' with any configuration it matches every
\* configuration and the call returned the empty sequence.
C27_MonotoneInIgnoredKeys ==
    last.op = "filter_completed" =>
        /\ \A ignored \in SUBSET last.ign :
              /\ \A i \in DOMAIN last.pre : \A completed \in LoadCompletedConfigs :
                    AreConfigsEqual(last.pre[i], completed, ignored)
                        => AreConfigsEqual(last.pre[i], completed, last.ign)
              /\ KeptUnder(last.ign) \subseteq KeptUnder(ignored)
              /\ configs = SubSeqAt(last.pre, LAMBDA i : i \in KeptUnder(last.ign))
        /\ \A completed \in LoadCompletedConfigs :
              (\A i \in DOMAIN last.pre :
                  ((DOMAIN last.pre[i]) \cap (DOMAIN completed)) \ last.ign = {})
                  => configs = <<>>

\* filter_completed ignoring every parameter emptied a sequence of at least
\* two configurations, one of which no snapshot matches when nothing is
\* ignored.
C27_Witness ==
    /\ last.op = "filter_completed"
    /\ Len(last.pre) >= 2
    /\ configs = <<>>
    /\ KeptUnder({}) # {}
    /\ KeptUnder({"lr"}) # KeptUnder({})
    /\ \E completed \in LoadCompletedConfigs : \A i \in DOMAIN last.pre :
          ((DOMAIN last.pre[i]) \cap (DOMAIN completed)) \ last.ign = {}

\* C28: the deduplication match relation is symmetric.  For every two
\* dictionaries and every list of ignored keys, _are_configs_equal gives the
\* same verdict with the two dictionaries swapped.  Checked under SpecEq.
C28_MatchSymmetric ==
    eq.done => (eq.ret <=> AreConfigsEqual(eq.c2, eq.c1, eq.ignore_keys))

\* A richer dictionary holding a list matched against a leaner one holding the
\* tuple with the same elements, where another value of a shared key gives a
\* mismatch in both directions.
C28_Witness ==
    /\ eq.done
    /\ eq.ret
    /\ eq.ignore_keys = {}
    /\ DOMAIN eq.c1 = {"lr", "layers", "seed"}
    /\ DOMAIN eq.c2 = {"lr", "model", "layers"}
    /\ eq.c1["layers"].ty = "list"
    /\ eq.c2["layers"].ty = "tuple"
    /\ ~AreConfigsEqual(eq.c2, [eq.c1 EXCEPT !["lr"] = Scalar(2)], {})
    /\ ~AreConfigsEqual([eq.c1 EXCEPT !["lr"] = Scalar(2)], eq.c2, {})

\* s holds the configurations of t, each as many times as t does.
IsPermutationOf(s, t) ==
    /\ Len(s) = Len(t)
    /\ \A x \in Range(s) \cup Range(t) : Count(s, x) = Count(t, x)

\* What materializing the manager as it stands gives: the expanded set with
\* the modifiers applied in order, restricted to what every filter accepts.
WouldMaterialize ==
    LET modified == [i \in DOMAIN base_configs |->
                        Chain(base_configs[i], modifiers, Len(modifiers))]
    IN SubSeqAt(modified, LAMBDA i :
            \A j \in DOMAIN filters : FilterFunc(filters[j], modified[i]))

\* A shuffle call: the manager is materialized afterwards, its sequence is a
\* permutation of the materialized sequence before the call (of what
\* materializing gives when the manager was not yet materialized), and a
\* manager already materialized has no modifier called.
C29_ShuffleStep ==
    (last'.op = "shuffle" /\ n_ops' = n_ops + 1) =>
        /\ is_generated'
        /\ IsPermutationOf(configs', IF is_generated THEN configs ELSE WouldMaterialize)
        /\ is_generated => mod_log' = mod_log

\* A get_configs call right after a shuffle call returns the shuffled sequence
\* and calls no modifier.
C29_GetAfterShuffle ==
    (last.op = "shuffle" /\ last'.op = "get_configs" /\ n_ops' = n_ops + 1) =>
        /\ last'.ret = configs
        /\ configs' = configs
        /\ mod_log' = mod_log

\* C29: shuffle materializes the pipeline first if needed and then only
\* reorders: the sequence after it is a permutation of the materialized
\* sequence before it, and a later get_configs applies no modifier and no
\* filter again.
C29_ShuffleOnlyReorders == [][C29_ShuffleStep /\ C29_GetAfterShuffle]_vars

\* get_configs returned, in another order, the two or more configurations a
\* materialization with a modifier produced.
C29_Witness ==
    /\ last.op = "get_configs"
    /\ last.pre_generated
    /\ gen.mods # <<>>
    /\ Len(last.ret) >= 2
    /\ last.ret # gen.configs
    /\ IsPermutationOf(last.ret, gen.configs)
    /\ \E i \in DOMAIN gen.base : Chain(gen.base[i], gen.mods, Len(gen.mods)) # gen.base[i]

=============================================================================
